---- MODULE Spec2Model ----
(***************************************************************************)
(* Model of the ValueGuardToken reconciliation core: the block event       *)
(* poller (listen_for_events.Command), its event handlers over the Intent  *)
(* and audit tables (protocol/models.py) and the transaction submitter of  *)
(* AsyncOnChainService (protocol/services.py): Spec.  The components that  *)
(* run in other processes have a specification each: the rebalance task    *)
(* (SpecRebalance), _send_transaction step by step for concurrent callers  *)
(* (SpecSubmit), the NAV calculator (SpecNav) and the weight-update        *)
(* endpoint (SpecWeights).                                                 *)
(***************************************************************************)
EXTENDS Integers, Sequences, FiniteSets, TLC

(***************************************************************************)
(* Bounds of the model.                                                    *)
(***************************************************************************)
MaxBlock == 2            \* blocks 1..MaxBlock exist on the chain
MaxCrashes == 1          \* number of times the listener process is killed
MaxAllocEvents == 3      \* BasketAllocationUpdated events handled
MaxNavRuns == 2          \* runs of the NAV calculator
MaxPositions == 2        \* basket allocations that have a GMX position key
MaxWeightRequests == 2   \* requests to the weight-update endpoint

\* The decimals of the three amount scales.  services.py has 30, 6 and 18;
\* TLC's integers are 32 bits wide, so the model keeps their order and the
\* formulas built on them and uses fewer digits.
GMX_DECIMALS == 3
USDC_DECIMALS == 1
TARGET_DECIMALS == 2

(***************************************************************************)
(* The chain: an external collaborator, fixed content.                     *)
(***************************************************************************)
Vault == "vault"         \* settings.VAULT_MANAGER_CONTRACT_ADDRESS
Basket == "basket"       \* settings.BASKET_MANAGER_CONTRACT_ADDRESS
Other == "other"         \* any address that is not watched

NoIntent == 0            \* get_intent_id_from_* returning None
NoRow == -1              \* EventListenerState has no row with pk=1
IntentIds == 1..MaxBlock

MkLog(address, topic, arg, success, val) ==
    [address |-> address, topic |-> topic, arg |-> arg, success |-> success, val |-> val]

\* A log whose topic is the event's but whose data does not decode against
\* the event's ABI: event_obj().process_log(log_entry) raises on it.
MkBadLog(address, topic) ==
    [address |-> address, topic |-> topic, arg |-> 0, success |-> TRUE, val |-> 0,
     malformed |-> TRUE]

Decodable(lg) == "malformed" \notin DOMAIN lg

\* The chain the listener reads is one of four, each repeating every two
\* blocks: a mint intent and its deposits, a redeem intent and its
\* withdrawals, the basket events, and completion events with no intent
\* (among them a malformed one, two of one transaction, and a log of the
\* vault manager that carries a basket-manager event).  A block is the
\* sequence of its transactions, each one the sequence of logs of its receipt.
MintBlock(b) ==
    IF b % 2 = 1
    THEN << << MkLog(Vault, "MintIntentCreated", b, TRUE, 5),
               MkLog(Basket, "DepositProcessed", b, TRUE, 5) >>,
            << MkLog(Basket, "DepositProcessed", b, TRUE, 2) >> >>
    ELSE << << MkLog(Basket, "DepositProcessed", b, FALSE, 1),
               MkLog(Other, "DepositProcessed", b, TRUE, 1) >> >>

RedeemBlock(b) ==
    IF b % 2 = 1
    THEN << << MkLog(Vault, "RedeemIntentCreated", b, TRUE, 3) >>,
            << MkLog(Basket, "WithdrawalProcessed", b, TRUE, 3) >> >>
    ELSE << << MkLog(Basket, "WithdrawalProcessed", b, FALSE, 1),
               MkLog(Basket, "WithdrawalProcessed", b, TRUE, 1) >> >>

BasketBlock(b) ==
    IF b % 2 = 1
    THEN << << MkLog(Basket, "BasketAllocationUpdated", 0, TRUE, 4500),
               MkLog(Basket, "BasketAllocationUpdated", 1, TRUE, 5500) >>,
            << MkLog(Basket, "RebalanceExecuted", b, TRUE, 7) >> >>
    ELSE << << MkLog(Basket, "RebalanceExecuted", b, TRUE, 7),
               MkLog(Basket, "RebalanceExecuted", b, TRUE, 8),
               MkLog(Basket, "Transfer", b, TRUE, 7) >> >>

MixedBlock(b) ==
    IF b % 2 = 1
    THEN << << MkBadLog(Basket, "DepositProcessed"),
               MkLog(Basket, "DepositProcessed", b, TRUE, 2),
               MkLog(Basket, "DepositProcessed", b, FALSE, 1) >> >>
    ELSE << << MkLog(Basket, "WithdrawalProcessed", b, TRUE, 1),
               MkLog(Basket, "WithdrawalProcessed", b, FALSE, 1) >>,
            << MkBadLog(Vault, "RedeemIntentCreated"),
               MkLog(Vault, "RebalanceExecuted", b, TRUE, 9) >> >>

Chains ==
    { [b \in 1..MaxBlock |-> MintBlock(b)],
      [b \in 1..MaxBlock |-> RedeemBlock(b)],
      [b \in 1..MaxBlock |-> BasketBlock(b)],
      [b \in 1..MaxBlock |-> MixedBlock(b)] }

VARIABLES
    chain,                  \* the blocks of the chain (never changes)
    pc,                     \* where the listener is
    last_processed_block,   \* main_loop's in-memory cursor
    latest_block,           \* main_loop's last head read
    block_num, txi, logi,   \* process_block's loop variables
    hkind,                  \* the completion handler in progress: "none", "mint", "redeem"
    intent_id_hex,          \* its intent_id_hex, read from the pending deposit / withdrawal
    matching_intent,        \* its matching_intent.intent_id
    state_lpb,              \* EventListenerState(pk=1).last_processed_block
    MintIntents, RedeemIntents,
    DepositEvents, WithdrawalEvents, RebalanceEvents, AllocationUpdates,
    navTasks,               \* update_nav_task.delay calls made
    rebalanceTasks,         \* trigger_rebalance_task.apply_async calls made
    crashes,
    \* history
    origin,                 \* the checkpoint the row was created with
    delivered,              \* positions ever handed to a handler
    replayed,               \* positions handed to a handler more than once
    runLast,                \* last position handed to a handler in this run
    passSeen,               \* in this pass of block_num: <<b, t, 0>> for a receipt
                            \* fetched, <<b, t, l>> for a log handed to process_log
    tickFailed,             \* first block that failed in the current tick
    execLog,                \* per intent: the stage each call of execute_*_intent ended at
    \* the Celery worker running trigger_rebalance_task
    task_always_eager,      \* CELERY_TASK_ALWAYS_EAGER: tasks run inline in the caller
    now,                    \* the clock, in seconds
    allocTimes,             \* when each trigger_rebalance_task.apply_async() was made
    rebalanceWoken,         \* how many of these tasks have slept their cooldown and run
    rebalanceCalls,         \* when each rebalance_positions() call was made
    \* the hot wallet and the calls of _send_transaction in progress
    sub,                    \* per caller: where its call is, the nonce it read, its outcome
    accountNonce,           \* the hot wallet's transaction count on the chain
    broadcasts,             \* the transactions the node accepted: [by, nonce]
    \* the Celery worker running update_nav_task
    nav,                    \* the local variables of NAVCalculatorService.run, and
                            \* `fetched`, what each getPosition call of the run gave
    navRuns,                \* runs that have ended
    oracleCall,             \* the arguments of the last submitNAV built, and how it ended
    NAVUpdateLogs,          \* the NAVUpdateLog table
    \* the web worker serving TriggerUpdateWeightsView
    weightLog               \* each request handled, with what the chain held and the response


Block(b) == chain[b]
Logs(b, t) == Block(b)[t]
TxHash(b, t) == <<b, t>>

\* All positions <<block, tx, log>> of the chain, and those the poller hands on.
Positions ==
    {p \in (1..MaxBlock) \X (1..2) \X (1..3) :
        p[2] <= Len(Block(p[1])) /\ p[3] <= Len(Logs(p[1], p[2]))}

PosLess(p, q) ==
    \/ p[1] < q[1]
    \/ p[1] = q[1] /\ p[2] < q[2]
    \/ p[1] = q[1] /\ p[2] = q[2] /\ p[3] < q[3]

(***************************************************************************)
(* Django ORM operations on a table, a sequence of rows [pk, data].        *)
(***************************************************************************)
HasKey(tbl, k) == \E i \in 1..Len(tbl) : tbl[i].pk = k
Keys(tbl) == {tbl[i].pk : i \in 1..Len(tbl)}
RowOf(tbl, k) == tbl[CHOOSE i \in 1..Len(tbl) : tbl[i].pk = k]

\* An insert into a table whose key column is not unique: never raises.
acreate_dup(tbl, k, data) ==
    [ok |-> TRUE, tbl |-> Append(tbl, [pk |-> k, data |-> data])]

\* objects.acreate(pk=k, ...) with an explicit primary key: INSERT, which
\* raises IntegrityError when the key exists.
acreate(tbl, k, data) ==
    IF HasKey(tbl, k)
    THEN [ok |-> FALSE, tbl |-> tbl]
    ELSE [ok |-> TRUE, tbl |-> Append(tbl, [pk |-> k, data |-> data])]

\* objects.aupdate_or_create(pk=k, defaults=data): the row with key k gets
\* every field of defaults, or is created with them.
aupdate_or_create(tbl, k, data) ==
    IF HasKey(tbl, k)
    THEN [i \in 1..Len(tbl) |-> IF tbl[i].pk = k THEN [pk |-> k, data |-> data] ELSE tbl[i]]
    ELSE Append(tbl, [pk |-> k, data |-> data])

\* A filter on the intent id alone.
HasPending_any(tbl, k) == HasKey(tbl, k)

\* filter(intent_id=k, status=PENDING).afirst() finds a row
HasPending(tbl, k) == \E i \in 1..Len(tbl) : tbl[i].pk = k /\ tbl[i].data.status = "PENDING"

\* matching_intent.status = s; matching_intent.asave()
asave_status(tbl, k, s) ==
    [i \in 1..Len(tbl) |->
        IF tbl[i].pk = k THEN [tbl[i] EXCEPT !.data.status = s] ELSE tbl[i]]

StatusOf(tbl, k) == RowOf(tbl, k).data.status


(***************************************************************************)
(* Transaction submitter: AsyncOnChainService._send_transaction.           *)
(***************************************************************************)
\* A listener whose signing statement returns the signed transaction.
AsyncSignOutcomes_signed == {"signed"}

\* `await self.account.sign_transaction(tx_with_nonce)`: self.account is the
\* eth_account LocalAccount, whose sign_transaction is an ordinary method
\* returning a SignedTransaction; awaiting that object raises TypeError.
AsyncSignOutcomes == {"TypeError"}

\* The same statement without the await, as OnChainService has it.
SyncSignOutcomes == {"signed"}

\* The stage at which one call of _send_transaction ends: "rpc" is
\* get_transaction_count or estimate_gas raising, "send" is
\* send_raw_transaction raising, "timeout" is wait_for_transaction_receipt
\* raising, "reverted" is receipt.status != 1.  "confirmed" is the only one
\* that returns (a hash); every other one raises to the caller.
BroadcastStages == {"timeout", "reverted", "confirmed"}

SendStages(sign) ==
    {"rpc"}
      \cup (IF "TypeError" \in sign THEN {"sign"} ELSE {})
      \cup (IF "signed" \in sign THEN {"send", "timeout", "reverted", "confirmed"} ELSE {})

AsyncSendTransaction == SendStages(AsyncSignOutcomes)

\* execute_mint_intent / execute_redeem_intent: build_transaction (an RPC
\* call too), then _send_transaction.
ExecuteIntentStages == AsyncSendTransaction

(***************************************************************************)
(* The listener: registry built by main_loop.                              *)
(***************************************************************************)
contract_addresses == {Vault, Basket}

\* The `contracts` dict of main_loop: the contract each event is listed under.
contracts ==
    [topic \in {"MintIntentCreated", "RedeemIntentCreated", "DepositProcessed",
                "WithdrawalProcessed", "BasketAllocationUpdated", "RebalanceExecuted"} |->
        IF topic \in {"MintIntentCreated", "RedeemIntentCreated"} THEN Vault ELSE Basket]

event_handlers ==
    [topic \in {"MintIntentCreated", "RedeemIntentCreated", "DepositProcessed",
                "WithdrawalProcessed", "BasketAllocationUpdated", "RebalanceExecuted"} |->
        CASE topic = "MintIntentCreated" -> "handle_mint_intent_created"
          [] topic = "RedeemIntentCreated" -> "handle_redeem_intent_created"
          [] topic = "DepositProcessed" -> "handle_deposit_processed"
          [] topic = "WithdrawalProcessed" -> "handle_withdrawal_processed"
          [] topic = "BasketAllocationUpdated" -> "handle_basket_allocation_updated"
          [] OTHER -> "handle_rebalance_executed"]

\* The positions whose log process_block hands to process_log, and those
\* process_log hands to a handler.
WatchedPositions(b) ==
    {p \in Positions : p[1] = b /\ Logs(b, p[2])[p[3]].address \in contract_addresses}
HandledPositions(b) ==
    {p \in WatchedPositions(b) :
        /\ Logs(b, p[2])[p[3]].topic \in DOMAIN event_handlers
        /\ Decodable(Logs(b, p[2])[p[3]])}

poller == <<pc, last_processed_block, latest_block, block_num, txi, logi, hkind, intent_id_hex,
            matching_intent>>
tables == <<MintIntents, RedeemIntents, DepositEvents, WithdrawalEvents, RebalanceEvents,
            AllocationUpdates>>
tasks == <<navTasks, rebalanceTasks>>
rebalancer == <<task_always_eager, now, allocTimes, rebalanceWoken, rebalanceCalls>>
submitter == <<sub, accountNonce, broadcasts>>
navcalc == <<nav, navRuns, oracleCall, NAVUpdateLogs>>
offchain == <<rebalancer, submitter, navcalc, weightLog>>
history == <<origin, delivered, replayed, runLast, passSeen, tickFailed, execLog>>
listener == <<chain, poller, state_lpb, tables, tasks, crashes, history>>
vars == <<listener, offchain>>

NoPos == <<0, 0, 0>>

\* The listener with the chain c to read, at the control point p.
ListenerAt(c, p) ==
    /\ chain = c
    /\ pc = p
    /\ last_processed_block = 0
    /\ latest_block = 0
    /\ block_num = 0 /\ txi = 0 /\ logi = 0
    /\ hkind = "none"
    /\ matching_intent = NoIntent
    /\ intent_id_hex = NoIntent
    /\ state_lpb = NoRow
    /\ MintIntents = <<>> /\ RedeemIntents = <<>>
    /\ DepositEvents = <<>> /\ WithdrawalEvents = <<>>
    /\ RebalanceEvents = <<>> /\ AllocationUpdates = <<>>
    /\ navTasks = 0 /\ rebalanceTasks = 0
    /\ crashes = 0
    /\ origin = NoRow
    /\ delivered = {}
    /\ replayed = {}
    /\ runLast = NoPos
    /\ passSeen = {}
    /\ tickFailed = 0
    /\ execLog = [x \in IntentIds |-> <<>>]

\* No trigger_rebalance_task has been queued; the tasks go through a broker
\* (CELERY_TASK_ALWAYS_EAGER is False).
RebalanceInit ==
    /\ task_always_eager = FALSE
    /\ now = 0
    /\ allocTimes = <<>>
    /\ rebalanceWoken = 0
    /\ rebalanceCalls = <<>>

\* The callers of _send_transaction on the one hot wallet: the listener
\* through AsyncOnChainService, two runs of update_nav_task (the scheduled
\* one and one queued by the listener) through OnChainService.
Submitters == {"listener", "nav_scheduled", "nav_triggered"}

NoReceipt == -1

\* No call of _send_transaction has been made.
SubmitInit ==
    /\ sub = [p \in Submitters |->
                [pc |-> "idle", nonce |-> 0, sent |-> 0, receipt |-> NoReceipt,
                 result |-> "none"]]
    /\ accountNonce = 0
    /\ broadcasts = {}

NoHash == 0              \* tx_hash = None

NavIdle ==
    [pc |-> "idle", keys |-> 0, fetched |-> <<>>, total_gmx_value |-> 0,
     idle_reserves_usd |-> 0, shield_supply_wei |-> 0]

NoCall ==
    [navPerToken |-> 0, totalManagedValue |-> 0, shieldSupply |-> 0, stage |-> "none",
     hash |-> NoHash]

\* No run of the NAV calculator has been made.
NavInit ==
    /\ nav = NavIdle
    /\ navRuns = 0
    /\ oracleCall = NoCall
    /\ NAVUpdateLogs = <<>>

OffchainInit == RebalanceInit /\ SubmitInit /\ NavInit /\ weightLog = <<>>

Init == (\E c \in Chains : ListenerAt(c, "start")) /\ OffchainInit


(***************************************************************************)
(* main_loop.                                                              *)
(***************************************************************************)
\* A range that starts at the last processed block itself.
FirstBlock_repeat(last) == IF last > 0 THEN last ELSE 1

\* range(last_processed_block + 1, latest_block + 1): its first element
FirstBlock(last) == last + 1

\* A loop that forgets to move its cursor.
CursorAfterTick_keep(last, latest) == last

\* `last_processed_block = latest_block` after the for loop
CursorAfterTick(last, latest) == latest

\* An except branch that records the block all the same.
OnBlockError_write(st, b) == b

\* process_block's except branch: the error is logged, EventListenerState is
\* left as it was
OnBlockError(st, b) == st

\* A listener that resumes from the head it reads at start.
CursorAtStart_head(st, head) == head

\* `last_processed_block = state.last_processed_block` before the while loop
CursorAtStart(st, head) == st

\* The listener process is killed (or main_loop raised and handle() runs it
\* again): everything in memory is lost, the database stays.
Crash ==
    /\ crashes < MaxCrashes
    /\ pc # "start"
    /\ crashes' = crashes + 1
    /\ pc' = "start"
    /\ last_processed_block' = 0 /\ latest_block' = 0
    /\ block_num' = 0 /\ txi' = 0 /\ logi' = 0
    /\ hkind' = "none" /\ matching_intent' = NoIntent /\ intent_id_hex' = NoIntent
    /\ runLast' = NoPos /\ passSeen' = {} /\ tickFailed' = 0
    /\ UNCHANGED <<chain, offchain, state_lpb, tables, tasks, origin, delivered, replayed,
                   execLog>>

\* main_loop up to the while: aget_or_create(pk=1, defaults={head}), then
\* last_processed_block = state.last_processed_block
Start ==
    /\ pc = "start"
    /\ \E head \in 0..MaxBlock :
          /\ state_lpb' = IF state_lpb = NoRow THEN head ELSE state_lpb
          /\ origin' = IF state_lpb = NoRow THEN head ELSE origin
          /\ last_processed_block' = CursorAtStart(state_lpb', head)
    /\ pc' = "poll"
    /\ UNCHANGED <<latest_block, block_num, txi, logi, hkind, matching_intent, intent_id_hex,
                   tables, tasks, chain, offchain, crashes, delivered, replayed, runLast,
                   passSeen, tickFailed, execLog>>

\* One pass of the while loop up to the first process_block: the head is
\* read; with no new block the loop sleeps and comes back here (as it does,
\* with nothing changed, when the read raises).
Poll ==
    /\ pc = "poll"
    /\ \E head \in 0..MaxBlock :
          /\ latest_block' = head
          /\ IF head > last_processed_block
             THEN /\ block_num' = FirstBlock(last_processed_block)
                  /\ pc' = "get_block"
             ELSE UNCHANGED <<block_num, pc>>
    /\ tickFailed' = 0
    /\ UNCHANGED <<last_processed_block, txi, logi, hkind, matching_intent, intent_id_hex,
                   state_lpb, tables, tasks, chain, offchain, crashes, origin, delivered,
                   replayed, runLast, passSeen, execLog>>

(***************************************************************************)
(* process_block.                                                          *)
(***************************************************************************)
\* process_block returns (having written st to EventListenerState or not);
\* the for loop of main_loop goes on to the next block or ends the tick.
EndBlock(st) ==
    /\ state_lpb' = st
    /\ txi' = 0 /\ logi' = 0
    /\ passSeen' = {}
    /\ IF block_num < latest_block
       THEN /\ block_num' = block_num + 1
            /\ pc' = "get_block"
            /\ UNCHANGED last_processed_block
       ELSE /\ block_num' = 0
            /\ pc' = "poll"
            /\ last_processed_block' = CursorAfterTick(last_processed_block, latest_block)
    /\ UNCHANGED <<latest_block, hkind, matching_intent, intent_id_hex, tables, tasks, chain,
                   offchain, crashes, origin, delivered, replayed, runLast, execLog>>

\* After the transaction txi: the next transaction or the checkpoint write.
AfterTx(b, t) ==
    IF t < Len(Block(b))
    THEN [pc |-> "get_receipt", txi |-> t + 1, logi |-> 0]
    ELSE [pc |-> "checkpoint", txi |-> 0, logi |-> 0]

\* After the log logi of transaction txi.
AfterLog(b, t, l) ==
    IF l < Len(Logs(b, t))
    THEN [pc |-> "log", txi |-> t, logi |-> l + 1]
    ELSE AfterTx(b, t)

Goto(n) == pc' = n.pc /\ txi' = n.txi /\ logi' = n.logi

GetBlockOk ==
    /\ pc = "get_block"
    /\ Goto(IF Len(Block(block_num)) = 0
            THEN [pc |-> "checkpoint", txi |-> 0, logi |-> 0]
            ELSE [pc |-> "get_receipt", txi |-> 1, logi |-> 0])
    /\ passSeen' = {}
    /\ UNCHANGED <<last_processed_block, latest_block, block_num, hkind, matching_intent,
                   intent_id_hex, state_lpb, tables, tasks, chain, offchain, crashes, origin,
                   delivered, replayed, runLast, tickFailed, execLog>>

\* w3.eth.get_block raises
GetBlockFail ==
    /\ pc = "get_block"
    /\ tickFailed' = IF tickFailed = 0 THEN block_num ELSE tickFailed
    /\ EndBlock(OnBlockError(state_lpb, block_num))

GetReceiptOk ==
    /\ pc = "get_receipt"
    /\ Goto(IF Len(Logs(block_num, txi)) = 0
            THEN AfterTx(block_num, txi)
            ELSE [pc |-> "log", txi |-> txi, logi |-> 1])
    /\ passSeen' = passSeen \cup {<<block_num, txi, 0>>}
    /\ UNCHANGED <<last_processed_block, latest_block, block_num, hkind, matching_intent,
                   intent_id_hex, state_lpb, tables, tasks, chain, offchain, crashes, origin,
                   delivered, replayed, runLast, tickFailed, execLog>>

\* w3.eth.get_transaction_receipt raises
GetReceiptFail ==
    /\ pc = "get_receipt"
    /\ tickFailed' = IF tickFailed = 0 THEN block_num ELSE tickFailed
    /\ EndBlock(OnBlockError(state_lpb, block_num))

\* aupdate_or_create(pk=1, defaults={'last_processed_block': block_number})
WriteCheckpoint ==
    /\ pc = "checkpoint"
    /\ UNCHANGED tickFailed
    /\ EndBlock(block_num)


(***************************************************************************)
(* process_log and the event handlers.                                     *)
(***************************************************************************)
CurLog == Logs(block_num, txi)[logi]
CurPos == <<block_num, txi, logi>>
CurTx == TxHash(block_num, txi)

\* The log is handed to the handler h: `log_entry['address'] in
\* self.contract_addresses` in process_block, `topic in self.event_handlers`
\* in process_log, and event_obj().process_log(log_entry) decodes it.
Dispatched(h) ==
    /\ pc = "log"
    /\ CurLog.address \in contract_addresses
    /\ CurLog.topic \in DOMAIN event_handlers
    /\ Decodable(CurLog)
    /\ event_handlers[CurLog.topic] = h
    /\ delivered' = delivered \cup {CurPos}
    /\ replayed' = IF CurPos \in delivered THEN replayed \cup {CurPos} ELSE replayed
    /\ runLast' = CurPos
    /\ passSeen' = passSeen \cup {CurPos}
    /\ UNCHANGED <<last_processed_block, latest_block, block_num, state_lpb, chain, offchain,
                   crashes, origin, tickFailed>>

\* The handler (or process_log) returns: on to the next log.
Return ==
    /\ Goto(AfterLog(block_num, txi, logi))
    /\ hkind' = "none"
    /\ matching_intent' = NoIntent
    /\ intent_id_hex' = NoIntent

\* A log of an unwatched address, or one whose topic has no handler.
SkipLog ==
    /\ pc = "log"
    /\ \/ CurLog.address \notin contract_addresses
       \/ CurLog.topic \notin DOMAIN event_handlers
    /\ passSeen' = IF CurLog.address \in contract_addresses
                   THEN passSeen \cup {CurPos} ELSE passSeen
    /\ Return
    /\ UNCHANGED <<last_processed_block, latest_block, block_num, state_lpb, tables, tasks,
                   chain, offchain, crashes, origin, delivered, replayed, runLast, tickFailed,
                   execLog>>

\* A break out of the loop over the receipt's logs.
AfterDecodeError_break(b, t, l) == AfterTx(b, t)

\* process_log's except branch: the error is logged and process_log returns
\* to the loop over the receipt's logs.
AfterDecodeError(b, t, l) == AfterLog(b, t, l)

\* A log of a watched address with a registered topic whose payload does not
\* decode: event_obj().process_log raises inside process_log's try.
DecodeFail ==
    /\ pc = "log"
    /\ CurLog.address \in contract_addresses
    /\ CurLog.topic \in DOMAIN event_handlers
    /\ ~Decodable(CurLog)
    /\ passSeen' = passSeen \cup {CurPos}
    /\ Goto(AfterDecodeError(block_num, txi, logi))
    /\ UNCHANGED <<last_processed_block, latest_block, block_num, hkind, matching_intent,
                   intent_id_hex, state_lpb, tables, tasks, chain, offchain, crashes, origin,
                   delivered, replayed, runLast, tickFailed, execLog>>

IntentDefaults(lg) == [amount |-> lg.val, status |-> "PENDING"]

handle_mint_intent_created ==
    /\ Dispatched("handle_mint_intent_created")
    /\ MintIntents' = aupdate_or_create(MintIntents, CurLog.arg, IntentDefaults(CurLog))
    /\ Return
    /\ UNCHANGED <<RedeemIntents, DepositEvents, WithdrawalEvents, RebalanceEvents,
                   AllocationUpdates, tasks, execLog>>

handle_redeem_intent_created ==
    /\ Dispatched("handle_redeem_intent_created")
    /\ RedeemIntents' = aupdate_or_create(RedeemIntents, CurLog.arg, IntentDefaults(CurLog))
    /\ Return
    /\ UNCHANGED <<MintIntents, DepositEvents, WithdrawalEvents, RebalanceEvents,
                   AllocationUpdates, tasks, execLog>>

ProcessedData(lg) == [id |-> lg.arg, amount |-> lg.val, success |-> lg.success]

\* After the audit record: an IntegrityError of acreate is caught by
\* process_log, success=false returns, otherwise the handler goes on to the
\* cross-reference lookup.
AfterAudit(created, kind) ==
    IF created.ok /\ CurLog.success
    THEN /\ pc' = "lookup"
         /\ hkind' = kind
         /\ UNCHANGED <<txi, logi, matching_intent, intent_id_hex>>
    ELSE Return

\* handle_deposit_processed up to the lookup
handle_deposit_processed ==
    /\ Dispatched("handle_deposit_processed")
    /\ LET created == acreate(DepositEvents, CurTx, ProcessedData(CurLog)) IN
          /\ DepositEvents' = created.tbl
          /\ AfterAudit(created, "mint")
    /\ UNCHANGED <<MintIntents, RedeemIntents, WithdrawalEvents, RebalanceEvents,
                   AllocationUpdates, tasks, execLog>>

\* handle_withdrawal_processed up to the lookup
handle_withdrawal_processed ==
    /\ Dispatched("handle_withdrawal_processed")
    /\ LET created == acreate(WithdrawalEvents, CurTx, ProcessedData(CurLog)) IN
          /\ WithdrawalEvents' = created.tbl
          /\ AfterAudit(created, "redeem")
    /\ UNCHANGED <<MintIntents, RedeemIntents, DepositEvents, RebalanceEvents,
                   AllocationUpdates, tasks, execLog>>

IntentTable(kind) == IF kind = "mint" THEN MintIntents ELSE RedeemIntents

\* get_intent_id_from_deposit / get_intent_id_from_withdrawal.  What
\* pendingDeposits returns is the chain's choice; a failed read or an empty
\* associatedOrders gives None.
get_intent_id ==
    /\ pc = "lookup"
    /\ \E intent_id \in IntentIds \cup {NoIntent} : intent_id_hex' = intent_id
    /\ pc' = "filter"
    /\ UNCHANGED <<txi, logi, hkind, matching_intent>>
    /\ UNCHANGED <<last_processed_block, latest_block, block_num, state_lpb, tables, tasks,
                   chain, offchain, crashes, history>>

\* `if not intent_id_hex: return`, then
\* filter(intent_id=intent_id_hex, status=PENDING).afirst() and
\* `if not matching_intent: return`.
find_matching_intent ==
    /\ pc = "filter"
    /\ IF intent_id_hex # NoIntent /\ HasPending(IntentTable(hkind), intent_id_hex)
       THEN /\ pc' = "execute"
            /\ matching_intent' = intent_id_hex
            /\ UNCHANGED <<txi, logi, hkind, intent_id_hex>>
       ELSE Return
    /\ UNCHANGED <<last_processed_block, latest_block, block_num, state_lpb, tables, tasks,
                   chain, offchain, crashes, history>>

\* What the rest of the try block does once execute_*_intent has ended at
\* `stage`: after a returned hash, asave() of PROCESSED and
\* update_nav_task.delay() run ("scheduled") or one of them raises; every
\* exception of the try, from the submitter or from these two, goes to the
\* same except branch.
AfterExecute(stage) == IF stage = "confirmed" THEN {"scheduled", "raised"} ELSE {"raised"}

\* The try block of the completion handlers: execute_*_intent, then the
\* status is saved and the NAV task queued; the except branch saves FAILED.
execute_intent ==
    /\ pc = "execute"
    /\ \E stage \in ExecuteIntentStages : \E after \in AfterExecute(stage) :
        LET status == IF after = "scheduled" THEN "PROCESSED" ELSE "FAILED"
            x == matching_intent IN
          /\ execLog' = [execLog EXCEPT ![x] = Append(@, stage)]
          /\ IF hkind = "mint"
             THEN /\ MintIntents' = asave_status(MintIntents, x, status)
                  /\ UNCHANGED RedeemIntents
             ELSE /\ RedeemIntents' = asave_status(RedeemIntents, x, status)
                  /\ UNCHANGED MintIntents
          /\ navTasks' = IF after = "scheduled" THEN navTasks + 1 ELSE navTasks
    /\ Return
    /\ UNCHANGED <<last_processed_block, latest_block, block_num, state_lpb, DepositEvents,
                   WithdrawalEvents, RebalanceEvents, AllocationUpdates, rebalanceTasks, chain,
                   offchain, crashes, origin, delivered, replayed, runLast, passSeen,
                   tickFailed>>

AllocationDefaults(lg) == [basket_index |-> lg.arg, new_weight_bps |-> lg.val]

handle_basket_allocation_updated ==
    /\ Dispatched("handle_basket_allocation_updated")
    /\ AllocationUpdates' = aupdate_or_create(AllocationUpdates, CurTx, AllocationDefaults(CurLog))
    /\ rebalanceTasks' = rebalanceTasks + 1
    /\ Return
    /\ UNCHANGED <<MintIntents, RedeemIntents, DepositEvents, WithdrawalEvents, RebalanceEvents,
                   navTasks, execLog>>

RebalanceData(lg) == [amount |-> lg.val, timestamp |-> lg.arg]

handle_rebalance_executed ==
    /\ Dispatched("handle_rebalance_executed")
    /\ LET created == acreate(RebalanceEvents, CurTx, RebalanceData(CurLog)) IN
          /\ RebalanceEvents' = created.tbl
          /\ navTasks' = IF created.ok THEN navTasks + 1 ELSE navTasks
    /\ Return
    /\ UNCHANGED <<MintIntents, RedeemIntents, DepositEvents, WithdrawalEvents,
                   AllocationUpdates, rebalanceTasks, execLog>>

Next ==
    \/ Start
    \/ Poll
    \/ GetBlockOk
    \/ GetBlockFail
    \/ GetReceiptOk
    \/ GetReceiptFail
    \/ SkipLog
    \/ DecodeFail
    \/ handle_mint_intent_created
    \/ handle_redeem_intent_created
    \/ handle_deposit_processed
    \/ handle_withdrawal_processed
    \/ get_intent_id
    \/ find_matching_intent
    \/ execute_intent
    \/ handle_basket_allocation_updated
    \/ handle_rebalance_executed
    \/ WriteCheckpoint
    \/ Crash

Spec == Init /\ [][Next]_vars


(***************************************************************************)
(* The Celery worker: trigger_rebalance_task (tasks.py).                   *)
(***************************************************************************)
REBALANCE_COOLDOWN_SECONDS == 300

\* Seconds between one BasketAllocationUpdated event and the next.
EventGaps == {10, 150, 300, 400}

NoChain == [b \in 1..MaxBlock |-> <<>>]

\* The listener is not running.
ListenerOff == ListenerAt(NoChain, "off")

\* A constructor whose w3 argument has a default.
OnChainService_init_ok(w3_given) == "ok"

\* OnChainService.__init__(self, w3): a call that passes no w3 raises
\* TypeError (a missing required positional argument).
OnChainService_init(w3_given) == IF w3_given THEN "ok" ELSE "TypeError"

\* handle_basket_allocation_updated reaches
\* trigger_rebalance_task.apply_async(): a worker starts one more task, which
\* goes to sleep.  (Tasks whose cooldown ends before the event run first.)
\* With task_always_eager, apply_async() runs the task body in the caller
\* before it returns: the handler comes back after the task's time.sleep.
apply_async_trigger_rebalance ==
    /\ Len(allocTimes) < MaxAllocEvents
    /\ \E gap \in EventGaps :
          /\ \A i \in (rebalanceWoken + 1)..Len(allocTimes) :
                allocTimes[i] + REBALANCE_COOLDOWN_SECONDS >= now + gap
          /\ allocTimes' = Append(allocTimes, now + gap)
          /\ IF task_always_eager
             THEN /\ now' = now + gap + REBALANCE_COOLDOWN_SECONDS
                  /\ rebalanceWoken' = rebalanceWoken + 1
                  /\ rebalanceCalls' = IF OnChainService_init(FALSE) = "ok"
                                       THEN Append(rebalanceCalls, now')
                                       ELSE rebalanceCalls
             ELSE /\ now' = now + gap
                  /\ UNCHANGED <<rebalanceWoken, rebalanceCalls>>
    /\ UNCHANGED <<task_always_eager, listener, submitter, navcalc, weightLog>>

\* trigger_rebalance_task after time.sleep(REBALANCE_COOLDOWN_SECONDS): the
\* try block constructs OnChainService() with no argument and calls
\* rebalance_positions(); the except branch logs whatever was raised.
trigger_rebalance_task ==
    /\ rebalanceWoken < Len(allocTimes)
    /\ LET wake == allocTimes[rebalanceWoken + 1] + REBALANCE_COOLDOWN_SECONDS
           at == IF wake > now THEN wake ELSE now
       IN  /\ now' = at
           /\ rebalanceCalls' = IF OnChainService_init(FALSE) = "ok"
                                THEN Append(rebalanceCalls, at)
                                ELSE rebalanceCalls
    /\ rebalanceWoken' = rebalanceWoken + 1
    /\ UNCHANGED <<task_always_eager, allocTimes, listener, submitter, navcalc, weightLog>>

NextRebalance ==
    \/ apply_async_trigger_rebalance
    \/ trigger_rebalance_task

\* Only the workers run.
InitOffchain == ListenerOff /\ OffchainInit

\* The handler's dispatch and the workers, in either task-execution mode:
\* settings.py sets CELERY_TASK_ALWAYS_EAGER in development without a broker
\* URL and clears it otherwise.
InitRebalance ==
    /\ ListenerOff
    /\ task_always_eager \in BOOLEAN
    /\ now = 0
    /\ allocTimes = <<>>
    /\ rebalanceWoken = 0
    /\ rebalanceCalls = <<>>
    /\ SubmitInit
    /\ NavInit
    /\ weightLog = <<>>

SpecRebalance == InitRebalance /\ [][NextRebalance]_vars

(***************************************************************************)
(* OnChainService._send_transaction and AsyncOnChainService's, step by     *)
(* step, for callers that run in different processes.                      *)
(***************************************************************************)
SignOutcomes(p) == IF p = "listener" THEN AsyncSignOutcomes ELSE SyncSignOutcomes

\* A submitter that returns the hash whatever the receipt says.
ReceiptOutcome_any(status) == "hash"

\* `if receipt.status != 1: raise Exception(...)`, else `return tx_hash.hex()`
ReceiptOutcome(status) == IF status # 1 THEN "raised" ELSE "hash"

\* The call of p moves to the next statement.
Proceed(p, to) == sub' = [sub EXCEPT ![p].pc = to]

\* A statement of the call of p raises: nothing catches it inside
\* _send_transaction.
Raise(p) == sub' = [sub EXCEPT ![p].pc = "done", ![p].result = "raised"]

\* nonce = w3.eth.get_transaction_count(self.hot_wallet_address)
get_transaction_count(p) ==
    /\ sub[p].pc = "idle"
    /\ \/ sub' = [sub EXCEPT ![p].pc = "gas", ![p].nonce = accountNonce]
       \/ Raise(p)
    /\ UNCHANGED <<accountNonce, broadcasts, listener, rebalancer, navcalc, weightLog>>

\* tx_with_nonce['gas'] = w3.eth.estimate_gas(tx_with_nonce)
estimate_gas(p) ==
    /\ sub[p].pc = "gas"
    /\ \/ Proceed(p, "sign")
       \/ Raise(p)
    /\ UNCHANGED <<accountNonce, broadcasts, listener, rebalancer, navcalc, weightLog>>

\* signed_tx = self.account.sign_transaction(tx_with_nonce), awaited in
\* AsyncOnChainService
sign_transaction(p) ==
    /\ sub[p].pc = "sign"
    /\ \E outcome \in SignOutcomes(p) :
          IF outcome = "signed" THEN Proceed(p, "send") ELSE Raise(p)
    /\ UNCHANGED <<accountNonce, broadcasts, listener, rebalancer, navcalc, weightLog>>

\* tx_hash = w3.eth.send_raw_transaction(signed_tx.raw_transaction): the node
\* takes the transaction into its pool, or refuses it (always when the nonce
\* is already used up on the chain), or the request fails.
send_raw_transaction(p) ==
    /\ sub[p].pc = "send"
    /\ \/ /\ sub[p].nonce >= accountNonce
          /\ sub' = [sub EXCEPT ![p].pc = "wait", ![p].sent = @ + 1]
          /\ broadcasts' = broadcasts \cup {[by |-> p, nonce |-> sub[p].nonce]}
       \/ /\ sub' = [sub EXCEPT ![p].pc = "done", ![p].result = "raised", ![p].sent = @ + 1]
          /\ UNCHANGED broadcasts
    /\ UNCHANGED <<accountNonce, listener, rebalancer, navcalc, weightLog>>

\* receipt = w3.eth.wait_for_transaction_receipt(tx_hash), then the status
\* check.  The transaction is mined when its nonce is the account's next
\* one; the wait can also time out.
wait_for_transaction_receipt(p) ==
    /\ sub[p].pc = "wait"
    /\ \/ /\ sub[p].nonce = accountNonce
          /\ accountNonce' = accountNonce + 1
          /\ \E status \in {0, 1} :
                sub' = [sub EXCEPT ![p].pc = "done", ![p].receipt = status,
                                   ![p].result = ReceiptOutcome(status)]
       \/ /\ Raise(p)
          /\ UNCHANGED accountNonce
    /\ UNCHANGED <<broadcasts, listener, rebalancer, navcalc, weightLog>>

NextSubmit ==
    \/ \E p \in Submitters : get_transaction_count(p)
    \/ \E p \in Submitters : estimate_gas(p)
    \/ \E p \in Submitters : sign_transaction(p)
    \/ \E p \in Submitters : send_raw_transaction(p)
    \/ \E p \in Submitters : wait_for_transaction_receipt(p)

SpecSubmit == InitOffchain /\ [][NextSubmit]_vars

(***************************************************************************)
(* NAVCalculatorService.run (services.py), as update_nav_task runs it.     *)
(***************************************************************************)
GMX_SCALAR == 10 ^ (GMX_DECIMALS - TARGET_DECIMALS)
USDC_SCALAR == 10 ^ (TARGET_DECIMALS - USDC_DECIMALS)
WEI_SCALAR == 10 ^ TARGET_DECIMALS

\* What the chain returns to the reads of a run: numbers.collateralAmount of
\* a position (GMX scale), the USDC reserves (USDC scale), totalSupply().
Collaterals == {25}
Reserves == {0, 2}
Supplies == {0, 3}

\* The Decimal values of a run are all whole multiples of 1 / GMX_SCALAR and
\* are exact (the context has 50 digits): the model holds each Decimal d as
\* the integer d * GMX_SCALAR.
\* Decimal(collateral_amount_gmx) / GMX_SCALAR
collateral_usd_18_decimals(collateral_amount_gmx) == collateral_amount_gmx

\* Decimal(reserves_usdc) * USDC_SCALAR
idle_reserves_usd(reserves_usdc) == reserves_usdc * USDC_SCALAR * GMX_SCALAR

\* total_gmx_value + idle_reserves_usd
total_managed_value(gmx, idle) == gmx + idle

\* A NAV that is rounded up.
nav_per_token_wei_ceil(tmv, shield_supply_wei) ==
    IF shield_supply_wei = 0
    THEN WEI_SCALAR
    ELSE (tmv * WEI_SCALAR + shield_supply_wei * GMX_SCALAR - 1)
            \div (shield_supply_wei * GMX_SCALAR)

\* int(WEI_SCALAR) when the supply is 0, else
\* int((total_managed_value * WEI_SCALAR) / Decimal(shield_supply_wei))
nav_per_token_wei(tmv, shield_supply_wei) ==
    IF shield_supply_wei = 0
    THEN WEI_SCALAR
    ELSE (tmv * WEI_SCALAR) \div (shield_supply_wei * GMX_SCALAR)

\* nav_data['totalManagedValue']: int(total_managed_value * WEI_SCALAR)
totalManagedValue(tmv) == (tmv * WEI_SCALAR) \div GMX_SCALAR

\* build_transaction of submitNAV, then OnChainService._send_transaction
SubmitNavStages == SendStages(SyncSignOutcomes)

\* A run that records the transaction's hash whatever became of it.
tx_hash_after_always(stage, hash) == hash

\* `tx_hash = None`, then in the try `tx_hash = _send_transaction(tx)`; the
\* except branch only logs.
tx_hash_after(stage, hash) == IF stage = "confirmed" THEN hash ELSE NoHash

\* An exception leaves run(): update_nav_task's except logs it, and the run
\* has ended with nothing recorded.
RunRaises ==
    /\ nav' = NavIdle
    /\ navRuns' = navRuns + 1
    /\ UNCHANGED <<oracleCall, NAVUpdateLogs>>

\* 1. getBasketLength() and getBasketAllocation(i): the number of position
\* keys that are not zero.
read_basket ==
    /\ nav.pc = "idle"
    /\ navRuns < MaxNavRuns
    /\ \/ /\ \E n \in 0..MaxPositions : nav' = [NavIdle EXCEPT !.pc = "positions", !.keys = n]
          /\ UNCHANGED <<navRuns, oracleCall, NAVUpdateLogs>>
       \/ RunRaises
    /\ UNCHANGED <<listener, rebalancer, submitter, weightLog>>

\* A run that drops what it had summed when a position cannot be read.
after_position_error_reset(n) ==
    [n EXCEPT !.keys = @ - 1,
              !.fetched = Append(@, [ok |-> FALSE, collateral |-> 0]),
              !.total_gmx_value = 0]

\* The except branch of the loop over position_keys: it logs, and the loop
\* goes on with the next key; total_gmx_value is as it was.
after_position_error(n) ==
    [n EXCEPT !.keys = @ - 1,
              !.fetched = Append(@, [ok |-> FALSE, collateral |-> 0])]

\* 2. One pass of `for key_hex in position_keys`: getPosition returns and the
\* collateral is added, or it raises, which is logged, and the loop goes on.
get_position ==
    /\ nav.pc = "positions"
    /\ nav.keys > 0
    /\ \/ \E c \in Collaterals :
            nav' = [nav EXCEPT !.keys = @ - 1,
                               !.fetched = Append(@, [ok |-> TRUE, collateral |-> c]),
                               !.total_gmx_value = @ + collateral_usd_18_decimals(c)]
       \/ nav' = after_position_error(nav)
    /\ UNCHANGED <<navRuns, oracleCall, NAVUpdateLogs, listener, rebalancer, submitter, weightLog>>

\* 3. stablecoins(USDC_ADDRESS): the reserves
read_reserves ==
    /\ nav.pc = "positions"
    /\ nav.keys = 0
    /\ \/ /\ \E r \in Reserves :
                nav' = [nav EXCEPT !.pc = "supply", !.idle_reserves_usd = idle_reserves_usd(r)]
          /\ UNCHANGED <<navRuns, oracleCall, NAVUpdateLogs>>
       \/ RunRaises
    /\ UNCHANGED <<listener, rebalancer, submitter, weightLog>>

\* 4. totalSupply()
read_supply ==
    /\ nav.pc = "supply"
    /\ \/ /\ \E supply \in Supplies :
                nav' = [nav EXCEPT !.pc = "submit", !.shield_supply_wei = supply]
          /\ UNCHANGED <<navRuns, oracleCall, NAVUpdateLogs>>
       \/ RunRaises
    /\ UNCHANGED <<listener, rebalancer, submitter, weightLog>>

\* 5. and 6.: the NAV, nav_data, the signature, the submission in its try,
\* and the NAVUpdateLog row that follows the try in every case.
submit_nav ==
    /\ nav.pc = "submit"
    /\ \E stage \in SubmitNavStages :
          LET tmv == total_managed_value(nav.total_gmx_value, nav.idle_reserves_usd)
              hash == navRuns + 1
          IN  /\ oracleCall' =
                    [navPerToken |-> nav_per_token_wei(tmv, nav.shield_supply_wei),
                     totalManagedValue |-> totalManagedValue(tmv),
                     shieldSupply |-> nav.shield_supply_wei,
                     stage |-> stage,
                     hash |-> hash]
              /\ NAVUpdateLogs' =
                    Append(NAVUpdateLogs,
                           [total_position_size |-> tmv,
                            onchain_tx_hash |-> tx_hash_after(stage, hash)])
    /\ nav' = NavIdle
    /\ navRuns' = navRuns + 1
    /\ UNCHANGED <<listener, rebalancer, submitter, weightLog>>

NextNav ==
    \/ read_basket
    \/ get_position
    \/ read_reserves
    \/ read_supply
    \/ submit_nav

SpecNav == InitOffchain /\ [][NextNav]_vars

(***************************************************************************)
(* TriggerUpdateWeightsView.post (views.py).                               *)
(***************************************************************************)
\* The target weights the basket manager holds, by basket index (from 0).
OnChainWeights == {<<4000, 6000>>, <<4000, 5500>>, <<0, 10000>>}

\* The requests: basketIndex and newWeightBps.
RequestIndexes == {0, 1}
RequestWeights == {4000, 4500, 10000, 10500}

\* UpdateBasketWeightSerializer: basketIndex >= 0, 0 <= newWeightBps <= 10000
is_valid(basket_index, new_weight_bps) ==
    basket_index >= 0 /\ new_weight_bps >= 0 /\ new_weight_bps <= 10000

\* getTotalTargetWeights(); a failed read is logged and gives 0
get_total_basket_weights(weights, read_ok) ==
    IF read_ok THEN weights[1] + weights[2] ELSE 0

\* update_basket_weight: build_transaction, then _send_transaction
UpdateWeightStages == SendStages(SyncSignOutcomes)

\* post(): the response status and the stage update_basket_weight ended at
\* ("none" when it was not called).  Every exception of the try block,
\* that of the constructor included, gives 500.
post(basket_index, new_weight_bps, weights, read_ok, stage) ==
    IF ~is_valid(basket_index, new_weight_bps)
    THEN [status |-> 400, stage |-> "none"]
    ELSE IF OnChainService_init(FALSE) # "ok"
    THEN [status |-> 500, stage |-> "none"]
    ELSE LET current_total_weights == get_total_basket_weights(weights, read_ok)
             old_weight_bps == weights[basket_index + 1]
             new_total_weights == (current_total_weights - old_weight_bps) + new_weight_bps
         IN  IF new_total_weights # 10000
             THEN [status |-> 400, stage |-> "none"]
             ELSE [status |-> IF stage = "confirmed" THEN 200 ELSE 500, stage |-> stage]

\* One request is served.
TriggerUpdateWeightsView_post ==
    /\ Len(weightLog) < MaxWeightRequests
    /\ \E basket_index \in RequestIndexes, new_weight_bps \in RequestWeights,
          weights \in OnChainWeights, read_ok \in BOOLEAN, stage \in UpdateWeightStages :
          LET response == post(basket_index, new_weight_bps, weights, read_ok, stage)
          IN  weightLog' =
                Append(weightLog,
                       [basketIndex |-> basket_index, newWeightBps |-> new_weight_bps,
                        weights |-> weights, read_ok |-> read_ok,
                        status |-> response.status, stage |-> response.stage])
    /\ UNCHANGED <<listener, rebalancer, submitter, navcalc>>

NextWeights == TriggerUpdateWeightsView_post

SpecWeights == InitOffchain /\ [][NextWeights]_vars

(***************************************************************************)
(* Properties.                                                             *)
(***************************************************************************)
Terminal == {"PROCESSED", "FAILED"}

\* The step hands the log at CurPos to its handler.
IsDispatch == pc = "log" /\ runLast' = CurPos

CountKey(tbl, k) == Cardinality({i \in 1..Len(tbl) : tbl[i].pk = k})
PKs(tbl) == [i \in 1..Len(tbl) |-> tbl[i].pk]

KeepsTerminal(tbl, tbl2) ==
    \A k \in Keys(tbl) :
        StatusOf(tbl, k) \in Terminal => HasKey(tbl2, k) /\ StatusOf(tbl2, k) = StatusOf(tbl, k)

\* C1: once the status of a Mint or Redeem Intent is PROCESSED or FAILED, no
\* later step changes it.
C1_StatusTerminal ==
    [][KeepsTerminal(MintIntents, MintIntents') /\ KeepsTerminal(RedeemIntents, RedeemIntents')]_vars

\* C2: handling a creation event for an intent_id that already has a record
\* leaves exactly one record for it and, when the stored status is not
\* PENDING, leaves the stored status unchanged.
C2_CreationIdempotent ==
    [][(IsDispatch /\ CurLog.topic \in {"MintIntentCreated", "RedeemIntentCreated"})
        => LET tbl == IF CurLog.topic = "MintIntentCreated" THEN MintIntents ELSE RedeemIntents
               tbl2 == IF CurLog.topic = "MintIntentCreated" THEN MintIntents' ELSE RedeemIntents'
           IN  HasKey(tbl, CurLog.arg)
                 => /\ CountKey(tbl2, CurLog.arg) = 1
                    /\ StatusOf(tbl, CurLog.arg) # "PENDING"
                         => StatusOf(tbl2, CurLog.arg) = StatusOf(tbl, CurLog.arg)]_vars

\* C3: execute-mint / execute-redeem is handed to the transaction submitter
\* at most once for each Intent.
C3_ExecutedAtMostOnce == \A x \in IntentIds : Len(execLog[x]) <= 1

\* C4: every change of the persisted checkpoint sets it to the block being
\* processed, after every receipt of that block was fetched and every log of
\* a watched contract in it was handed to process_log in this pass; a pass
\* that raised leaves the checkpoint as it was.
AllOfBlockSeen(b) ==
    /\ {<<b, t, 0>> : t \in 1..Len(Block(b))} \subseteq passSeen
    /\ WatchedPositions(b) \subseteq passSeen

C4_CheckpointAfterDispatch ==
    [][(state_lpb # NoRow /\ state_lpb' # state_lpb)
        => state_lpb' = block_num /\ AllOfBlockSeen(block_num)]_vars

C4_Witness ==
    /\ origin = 0 /\ state_lpb = 1 /\ tickFailed = 2
    /\ HandledPositions(1) # {} /\ HandledPositions(1) \subseteq delivered

\* C5: when a block b fails in a tick, no block greater than b is processed
\* in that tick and neither the persisted checkpoint nor the in-memory cursor
\* moves to b or past it.
C5_TickStopsAtFailure ==
    tickFailed # 0
      => /\ block_num <= tickFailed
         /\ state_lpb < tickFailed
         /\ last_processed_block < tickFailed

\* C6: no block above the starting checkpoint is skipped: every block the
\* persisted checkpoint has reached or passed has had each of its
\* watched-contract logs handed to its handler.
C6_NoBlockSkipped ==
    state_lpb # NoRow
      => \A b \in (origin + 1)..state_lpb : HandledPositions(b) \subseteq delivered

\* C7: the persisted last_processed_block never decreases, over ticks,
\* failed blocks, heads below the checkpoint and restarts.
C7_CheckpointMonotonic == [][state_lpb # NoRow => state_lpb' >= state_lpb]_vars

C7_Witness ==
    /\ crashes >= 1 /\ pc = "poll"
    /\ state_lpb > origin
    /\ latest_block >= 1 /\ latest_block < state_lpb

\* C8: within one run, logs are handed to handlers in strictly ascending
\* order of (block, transaction, log), and no handler is in progress when
\* the next log is handed over.
C8_DispatchOrder ==
    [][IsDispatch
        => /\ runLast = NoPos \/ PosLess(runLast, CurPos)
           /\ hkind = "none" /\ matching_intent = NoIntent]_vars

C8_Witness ==
    /\ crashes = 0 /\ runLast[1] = 2 /\ runLast[3] = 2
    /\ HandledPositions(1) # {} /\ HandledPositions(1) \subseteq delivered

\* C9: handing a log to its handler a second time adds no record: every
\* Intent and audit table keeps its rows' keys, and the Deposit, Withdrawal
\* and Rebalance audit tables are unchanged.
C9_ReplayAddsNoRecord ==
    [][(IsDispatch /\ CurPos \in delivered)
        => /\ PKs(MintIntents') = PKs(MintIntents)
           /\ PKs(RedeemIntents') = PKs(RedeemIntents)
           /\ PKs(AllocationUpdates') = PKs(AllocationUpdates)
           /\ DepositEvents' = DepositEvents
           /\ WithdrawalEvents' = WithdrawalEvents
           /\ RebalanceEvents' = RebalanceEvents]_vars

C9_Witness ==
    /\ \E p \in replayed : Logs(p[1], p[2])[p[3]].topic \in
          {"DepositProcessed", "WithdrawalProcessed", "RebalanceExecuted"}
    /\ pc = "checkpoint"

\* C10: whenever a completion event resolved to a PENDING Intent and the
\* execution met no RPC failure, the execute transaction was broadcast.
RpcFailureStages == {"rpc", "send", "timeout"}

C10_MatchedIntentSubmitted ==
    \A x \in IntentIds : \A i \in 1..Len(execLog[x]) :
        execLog[x][i] \notin RpcFailureStages => execLog[x][i] \in BroadcastStages

\* C11: handling DepositProcessed or WithdrawalProcessed with success=false
\* persists the audit record of that event and changes nothing else: every
\* Intent keeps its status, no cross-reference lookup is made, no
\* transaction is submitted and no NAV recompute is scheduled.
C11_FailedCompletionOnlyAudited ==
    [][(IsDispatch /\ CurLog.topic \in {"DepositProcessed", "WithdrawalProcessed"}
                  /\ ~CurLog.success)
        => /\ LET tbl2 == IF CurLog.topic = "DepositProcessed"
                          THEN DepositEvents' ELSE WithdrawalEvents'
              IN  HasKey(tbl2, CurTx) /\ RowOf(tbl2, CurTx).data = ProcessedData(CurLog)
           /\ MintIntents' = MintIntents /\ RedeemIntents' = RedeemIntents
           /\ pc' \notin {"lookup", "filter", "execute"}
           /\ execLog' = execLog
           /\ navTasks' = navTasks]_vars

\* C12: for n >= 1 BasketAllocationUpdated events, each less than one
\* cooldown after the previous one, exactly one rebalance_positions call is
\* made, one cooldown after the last of them.
Burst ==
    /\ Len(allocTimes) >= 1
    /\ \A i \in 2..Len(allocTimes) :
          allocTimes[i] - allocTimes[i - 1] < REBALANCE_COOLDOWN_SECONDS

C12_Debounce ==
    (Burst /\ rebalanceWoken = Len(allocTimes))
      => rebalanceCalls = <<allocTimes[Len(allocTimes)] + REBALANCE_COOLDOWN_SECONDS>>

\* C13: the sections "read account nonce -> sign -> broadcast" of two
\* submissions from the same hot wallet never overlap, and no two
\* transactions are broadcast with the same nonce.
InNonceSection(p) == sub[p].pc \in {"gas", "sign", "send"}

C13_NonceExclusion ==
    /\ \A p, q \in Submitters : p # q => ~(InNonceSection(p) /\ InNonceSection(q))
    /\ \A x, y \in broadcasts : x # y => x.nonce # y.nonce

\* C14: a call of _send_transaction returns a transaction hash exactly when
\* a receipt was obtained and its status is 1; every other outcome raises to
\* the caller; no call sends a second transaction.
C14_HashIffReceiptSuccess ==
    \A p \in Submitters :
        /\ sub[p].sent <= 1
        /\ sub[p].pc = "done"
             => /\ sub[p].result = "hash" <=> sub[p].receipt = 1
                /\ sub[p].result # "hash" => sub[p].result = "raised"
        /\ sub[p].pc # "done" => sub[p].result = "none"

C14_Witness ==
    /\ sub["nav_scheduled"].pc = "done" /\ sub["nav_scheduled"].result = "hash"
    /\ sub["nav_triggered"].pc = "done" /\ sub["nav_triggered"].receipt = 0
    /\ sub["listener"].pc = "done" /\ sub["listener"].result = "raised"

\* C15: the navPerToken that a run signs and submits is floor(V * 10^18 / S)
\* when the supply S is positive and 10^18 when it is zero, V being the
\* run's total managed value on the 18-decimal scale.
IsFloorOf(n, num, den) == n * den <= num /\ num < (n + 1) * den

C15_NavFormula ==
    [][nav.pc = "submit"
        => LET tmv == nav.total_gmx_value + nav.idle_reserves_usd
               S == nav.shield_supply_wei
           IN  /\ oracleCall'.shieldSupply = S
               /\ IF S = 0
                  THEN oracleCall'.navPerToken = WEI_SCALAR
                  ELSE IsFloorOf(oracleCall'.navPerToken, tmv * WEI_SCALAR, S * GMX_SCALAR)]_vars

C15_Witness ==
    /\ oracleCall.stage = "confirmed"
    /\ oracleCall.shieldSupply > 0
    /\ oracleCall.navPerToken * oracleCall.shieldSupply < oracleCall.totalManagedValue

\* C16: a run that reaches the submission step appends a NAVUpdateLog row
\* whether the submission succeeds or fails; its onchain_tx_hash is null
\* exactly when the submission failed and is the submitter's hash otherwise.
C16_SnapshotEitherWay ==
    [][nav.pc = "submit"
        => /\ Len(NAVUpdateLogs') = Len(NAVUpdateLogs) + 1
           /\ SubSeq(NAVUpdateLogs', 1, Len(NAVUpdateLogs)) = NAVUpdateLogs
           /\ LET row == NAVUpdateLogs'[Len(NAVUpdateLogs')]
              IN  row.onchain_tx_hash =
                     IF oracleCall'.stage = "confirmed" THEN oracleCall'.hash ELSE NoHash]_vars

C16_Witness ==
    /\ Len(NAVUpdateLogs) = 2
    /\ NAVUpdateLogs[1].onchain_tx_hash = NoHash
    /\ NAVUpdateLogs[2].onchain_tx_hash = 2
    /\ oracleCall.stage = "confirmed"

\* C17: a request to set basket index i to `new` basis points leads to an
\* update-weight transaction if and only if currentTotal - old + new = 10000,
\* currentTotal and old being the weights the chain holds.
C17_WeightValidation ==
    \A k \in 1..Len(weightLog) :
        LET r == weightLog[k]
            currentTotal == r.weights[1] + r.weights[2]
            old == r.weights[r.basketIndex + 1]
        IN  r.stage # "none" <=> currentTotal - old + r.newWeightBps = 10000

\* C18: a log of a watched contract with a registered topic whose payload
\* does not decode is skipped: no handler runs for it, the loop goes on to
\* the next log of the block, and the checkpoint still advances to the block
\* after every decodable log of it was handed to its handler.
Undecodable(lg) ==
    lg.address \in contract_addresses /\ lg.topic \in DOMAIN event_handlers /\ ~Decodable(lg)

HasUndecodable(b) == \E p \in Positions : p[1] = b /\ Undecodable(Logs(b, p[2])[p[3]])

C18_MalformedLogSkipped ==
    [][/\ (pc = "log" /\ Undecodable(CurLog) /\ pc' # "start")
          => /\ <<tables, tasks, execLog, delivered>>' = <<tables, tasks, execLog, delivered>>
             /\ block_num' = block_num
             /\ <<pc', txi', logi'>> =
                   LET n == AfterLog(block_num, txi, logi) IN <<n.pc, n.txi, n.logi>>
       /\ (state_lpb # NoRow /\ state_lpb' # state_lpb /\ HasUndecodable(block_num))
          => /\ state_lpb' = block_num
             /\ HandledPositions(block_num) \subseteq passSeen]_vars

C18_Witness ==
    /\ crashes = 0 /\ origin = 0 /\ state_lpb >= 1
    /\ Undecodable(Logs(1, 1)[1])
    /\ <<1, 1, 1>> \notin delivered
    /\ {<<1, 1, 2>>, <<1, 1, 3>>} \subseteq delivered

\* C19: audit records are append-only: no later event changes or removes an
\* existing Deposit, Withdrawal, Rebalance or AllocationUpdate record, and
\* every event of these kinds handed over for the first time gets a record
\* of its own, also when its transaction emitted another one before.
Extends(tbl, tbl2) == Len(tbl2) >= Len(tbl) /\ SubSeq(tbl2, 1, Len(tbl)) = tbl

AuditRows ==
    Len(DepositEvents) + Len(WithdrawalEvents) + Len(RebalanceEvents) + Len(AllocationUpdates)

C19_AuditAppendOnly ==
    [][/\ Extends(DepositEvents, DepositEvents')
       /\ Extends(WithdrawalEvents, WithdrawalEvents')
       /\ Extends(RebalanceEvents, RebalanceEvents')
       /\ Extends(AllocationUpdates, AllocationUpdates')
       /\ (IsDispatch /\ CurPos \notin delivered
             /\ CurLog.topic \in {"DepositProcessed", "WithdrawalProcessed",
                                  "RebalanceExecuted", "BasketAllocationUpdated"})
          => AuditRows' = AuditRows + 1]_vars

\* C20: when a completion event with success=true resolves to no intent id,
\* or to an id that has no Intent in status PENDING, no transaction is
\* submitted, no Intent status changes, no NAV recompute is scheduled, and
\* the loop goes on to the next log of the block.
C20_NoMatchNoEffect ==
    [][(/\ pc = "filter" /\ pc' # "start"
        /\ \/ intent_id_hex = NoIntent
           \/ ~HasKey(IntentTable(hkind), intent_id_hex)
           \/ StatusOf(IntentTable(hkind), intent_id_hex) # "PENDING")
        => /\ <<tables, tasks, execLog>>' = <<tables, tasks, execLog>>
           /\ block_num' = block_num
           /\ <<pc', txi', logi'>> =
                 LET n == AfterLog(block_num, txi, logi) IN <<n.pc, n.txi, n.logi>>]_vars

C20_Witness ==
    /\ crashes = 0 /\ pc = "checkpoint" /\ block_num = 1
    /\ HasKey(MintIntents, 1) /\ StatusOf(MintIntents, 1) = "FAILED"
    /\ Len(execLog[1]) = 1
    /\ HasKey(DepositEvents, TxHash(1, 2))
    /\ navTasks = 0

\* C21: in every task-execution mode, handling BasketAllocationUpdated
\* returns, so that the poller can dispatch the next log, before the cooldown
\* that started at the event has elapsed.
C21_HandlerReturnsBeforeCooldown ==
    [][Len(allocTimes') > Len(allocTimes)
        => now' < allocTimes'[Len(allocTimes')] + REBALANCE_COOLDOWN_SECONDS]_vars

\* C22: every RebalanceExecuted event delivered for the first time, the
\* second and later ones of a transaction included, gets its audit record
\* persisted and one NAV recompute scheduled.
C22_RebalanceRecordedAndScheduled ==
    [][(IsDispatch /\ CurPos \notin delivered /\ CurLog.topic = "RebalanceExecuted")
        => /\ Len(RebalanceEvents') = Len(RebalanceEvents) + 1
           /\ navTasks' = navTasks + 1]_vars

\* C23: every run of the NAV calculator appends exactly one NAV snapshot: no
\* run ends without one and no run appends two.
C23_OneSnapshotPerRun == Len(NAVUpdateLogs) = navRuns

\* C24: when getPosition fails for some of the non-zero position keys, the
\* run goes on to the next key, and the total of the snapshot it appends is
\* the sum of the normalized collateral of the keys that were read plus the
\* normalized idle reserves.  (Decimals are held as multiples of
\* 1 / GMX_SCALAR, so a normalized collateral is the amount read.)
RECURSIVE SumFetched(_)
SumFetched(f) ==
    IF f = <<>> THEN 0
    ELSE (IF f[1].ok THEN f[1].collateral ELSE 0) + SumFetched(Tail(f))

SomeFetchFailed(f) == \E i \in 1..Len(f) : ~f[i].ok

C24_PartialTotal ==
    [][/\ (nav.pc = "positions" /\ nav.keys > 0)
          => /\ nav'.pc = "positions"
             /\ nav'.keys = nav.keys - 1
             /\ <<navRuns, NAVUpdateLogs>>' = <<navRuns, NAVUpdateLogs>>
       /\ (nav.pc = "submit" /\ SomeFetchFailed(nav.fetched))
          => /\ Len(NAVUpdateLogs') = Len(NAVUpdateLogs) + 1
             /\ oracleCall'.stage \in SubmitNavStages
             /\ NAVUpdateLogs'[Len(NAVUpdateLogs')].total_position_size
                   = SumFetched(nav.fetched) + nav.idle_reserves_usd]_vars

C24_Witness ==
    /\ nav.pc = "submit"
    /\ SomeFetchFailed(nav.fetched)
    /\ SumFetched(nav.fetched) > 0
    /\ nav.idle_reserves_usd > 0
    /\ nav.fetched[1].ok

\* C28: in every run the totalManagedValue that is hashed, signed and
\* submitted is the number V, on the same scale, that navPerToken was computed
\* from and that the run's snapshot stores.
C28_SameTotalEverywhere ==
    [][nav.pc = "submit"
        => LET V == oracleCall'.totalManagedValue * GMX_SCALAR
           IN  /\ NAVUpdateLogs'[Len(NAVUpdateLogs')].total_position_size = V
               /\ oracleCall'.navPerToken = nav_per_token_wei(V, oracleCall'.shieldSupply)]_vars

MayBeConfirmed == {"confirmed", "timeout"}

IsFailed(x) ==
    \/ HasKey(MintIntents, x) /\ StatusOf(MintIntents, x) = "FAILED"
    \/ HasKey(RedeemIntents, x) /\ StatusOf(RedeemIntents, x) = "FAILED"

C27_RedeliveryExecutes ==
    [][(/\ IsDispatch /\ CurPos \in delivered
        /\ CurLog.topic \in {"DepositProcessed", "WithdrawalProcessed"}
        /\ CurLog.success
        /\ \E x \in IntentIds :
              HasPending(IF CurLog.topic = "DepositProcessed"
                         THEN MintIntents ELSE RedeemIntents, x))
        => pc' = "lookup"]_vars

\* C29: a handler is invoked for a log only if the log was emitted by the
\* contract its event was registered for: no handler runs for a vault log
\* with a basket-manager event, a basket log with a vault event, a log of an
\* unwatched address or a log with an unregistered topic.
C29_HandlerOnlyForOwnContract ==
    \A p \in delivered :
        LET lg == Logs(p[1], p[2])[p[3]] IN
          /\ lg.topic \in DOMAIN contracts
          /\ lg.address = contracts[lg.topic]

====
